---- MODULE Spec2Model ----
(***************************************************************************)
(* Model of the WhatsApp webhook Lambda handler with the Bedrock agent     *)
(* (src/lambda_function_03_bedrock.py).                                    *)
(*                                                                         *)
(* One invocation of lambda_handler is a run of the program counter pc     *)
(* from "idle" to "done"; every call to a collaborator (S3 put_object,     *)
(* Bedrock invoke_agent and its event stream, the Graph API request) is    *)
(* one step whose outcome is chosen nondeterministically.                  *)
(*                                                                         *)
(* Encoding of Python values:                                              *)
(*   str used as an identifier  -> a TLA+ string ("GET", "15551234567")    *)
(*   None in a str position     -> None                                    *)
(*   str built or concatenated  -> a sequence of string pieces             *)
(*   dict                       -> a function from key strings to values   *)
(*   None in a dict position    -> NoneObj                                 *)
(*   list                       -> a sequence                              *)
(*   bytes                      -> a sequence of integers 0..255           *)
(*   a JSON document as a str   -> [json |-> value]; any other str         *)
(*                                 -> [raw |-> str]                        *)
(*   raised exception           -> [type |-> class name, msg |-> str(e)]   *)
(***************************************************************************)
EXTENDS Integers, Sequences, FiniteSets, TLC

(* Longest event stream the agent backend delivers in one completion. *)
MaxEvents == 3

None == "None"
NoneObj == [none |-> TRUE]
EmptyDict == [k \in {} |-> k]

(* dict.get(key, default) *)
Get(d, k, default) == IF k \in DOMAIN d THEN d[k] ELSE default

(* json.dumps / json.loads on the str encoding above.  json.loads(None)    *)
(* raises TypeError, a str that is not a JSON document JSONDecodeError.    *)
json_dumps(v) == [json |-> v]

Raise(t, m) == [ok |-> FALSE, val |-> EmptyDict, exc |-> [type |-> t, msg |-> m]]
Return(v) == [ok |-> TRUE, val |-> v, exc |-> [type |-> "", msg |-> <<>>]]

json_loads(s) ==
  IF s = NoneObj
    THEN Raise("TypeError", <<"the JSON object must be str, bytes or bytearray, not NoneType">>)
  ELSE IF "json" \in DOMAIN s
    THEN Return(s.json)
  ELSE Raise("JSONDecodeError", <<"Expecting value: line 1 column 1 (char 0)">>)

(* VERIFY_TOKEN as configured in the environment. *)
VERIFY_TOKEN == "SECRET"

(***************************************************************************)
(* Requests.                                                               *)
(***************************************************************************)
Methods == {"GET", "POST", "PUT", "get"}
Modes == {"subscribe", "Subscribe"}
Tokens == {"SECRET", "secret"}
Challenges == {"XYZ123"}

(* every dict over the given optional keys *)
QueryParams ==
  { [k \in ks |-> CASE k = "hub.mode" -> m [] k = "hub.verify_token" -> t [] OTHER -> c] :
      <<ks, m, t, c>> \in (SUBSET {"hub.mode", "hub.verify_token", "hub.challenge"})
                           \X Modes \X Tokens \X Challenges }

Senders == {"15551234567", "15557654321"}
Texts == { <<"hi">> }

TextObjs == {EmptyDict} \cup { [body |-> b] : b \in Texts }
Messages ==
  { [k \in ks |-> IF k = "from" THEN f ELSE t] :
      <<ks, f, t>> \in (SUBSET {"from", "text"}) \X Senders \X TextObjs }

(* a later message in the same delivery, asking something else *)
LaterMessage == [from |-> "15550000000", text |-> [body |-> <<"later">>]]

MessageLists == {<<>>} \cup { <<m>> : m \in Messages } \cup { <<m, LaterMessage>> : m \in Messages }
Values == {EmptyDict, [statuses |-> <<>>]} \cup { [messages |-> ms] : ms \in MessageLists }
Changes == {EmptyDict} \cup { [value |-> v] : v \in Values }
ChangeLists == {<<>>} \cup { <<c>> : c \in Changes }
Entries == {EmptyDict} \cup { [changes |-> cs] : cs \in ChangeLists }
EntryLists == {<<>>} \cup { <<e>> : e \in Entries }
Payloads == {EmptyDict} \cup { [entry |-> es] : es \in EntryLists }

Bodies == {NoneObj, [raw |-> "hello"]} \cup { json_dumps(p) : p \in Payloads }

GetEvents ==
  { [httpMethod |-> "GET", queryStringParameters |-> q, body |-> NoneObj] :
      q \in {NoneObj} \cup QueryParams }
   \cup { [httpMethod |-> "GET", body |-> NoneObj] }
PostEvents ==
  { [httpMethod |-> "POST", queryStringParameters |-> NoneObj, body |-> b] : b \in Bodies }
   \cup { [httpMethod |-> "POST", queryStringParameters |-> NoneObj] }
OtherEvents ==
  { [httpMethod |-> m, queryStringParameters |-> NoneObj, body |-> NoneObj] :
      m \in Methods \ {"GET", "POST"} }
   \cup { [queryStringParameters |-> NoneObj, body |-> json_dumps(EmptyDict)] }
Events == GetEvents \cup PostEvents \cup OtherEvents

VARIABLES
  pc,                  \* position inside lambda_handler
  event,               \* the event the handler was invoked with
  http_method,         \* lambda_handler local
  raw_body,            \* lambda_handler local
  from_number,         \* lambda_handler local
  text_message,        \* lambda_handler local
  completion,          \* invoke_agent local: "unset", None or "EventStream"
  events,              \* the completion events iterated so far
  agent_error,         \* the exception the agent backend or the decode raised
  full_response,       \* invoke_agent local
  assistant_response,  \* lambda_handler local
  log,                 \* calls made to the collaborators, in order
  response,            \* the dict lambda_handler returned, NoneObj before
  inv                  \* the frames of lambda_handler calls running side by side

handler == <<pc, event, http_method, raw_body, from_number, text_message,
             completion, events, agent_error, full_response, assistant_response,
             log, response>>

vars == <<pc, event, http_method, raw_body, from_number, text_message,
          completion, events, agent_error, full_response, assistant_response,
          log, response, inv>>

agent == <<completion, events, agent_error, full_response>>
locals == <<from_number, text_message, agent, assistant_response>>

NoResponse == NoneObj
NoError == [type |-> "", msg |-> <<>>]

(* Calls of lambda_handler in flight at the same time, each with its own   *)
(* frame of locals. *)
NumInvocations == 2
Invocations == 1..NumInvocations

IdleFrame ==
  [pc |-> "idle", event |-> NoneObj, from_number |-> None, text_message |-> <<>>,
   delivered |-> 0, full_response |-> <<>>, agent_error |-> NoError,
   agent_result |-> <<>>, assistant_response |-> <<>>, calls |-> <<>>,
   response |-> NoResponse]

Init ==
  /\ pc = "idle"
  /\ event = NoneObj
  /\ http_method = None
  /\ raw_body = NoneObj
  /\ from_number = None
  /\ text_message = <<>>
  /\ completion = "unset"
  /\ events = <<>>
  /\ agent_error = NoError
  /\ full_response = <<>>
  /\ assistant_response = <<>>
  /\ log = <<>>
  /\ response = NoResponse
  /\ inv = [p \in Invocations |-> IdleFrame]

(* lambda_handler is entered: the two locals are read from the event. *)
Invoke ==
  /\ pc \in {"idle", "done"}
  /\ \E ev \in Events :
       /\ event' = ev
       /\ http_method' = Get(ev, "httpMethod", "")
       /\ raw_body' = Get(ev, "body", json_dumps(EmptyDict))
  /\ from_number' = None
  /\ text_message' = <<>>
  /\ completion' = "unset"
  /\ events' = <<>>
  /\ agent_error' = NoError
  /\ full_response' = <<>>
  /\ assistant_response' = <<>>
  /\ log' = <<>>
  /\ response' = NoResponse
  /\ pc' = "store_event"
  /\ UNCHANGED inv

(* store_event_to_s3: put_object succeeds or raises; either way the        *)
(* function returns None.                                                   *)
store_event_to_s3(prefix, ok) == [op |-> "put_object", prefix |-> prefix, ok |-> ok]

(* StoreEvent with both writes under one try: a failed first write goes    *)
(* straight to the branch on the method.                                   *)
StoreEvent_SharedTry ==
  /\ pc = "store_event"
  /\ \E ok \in BOOLEAN :
       /\ log' = Append(log, store_event_to_s3("event", ok))
       /\ pc' = IF ok THEN "store_body" ELSE "branch"
  /\ UNCHANGED inv
  /\ UNCHANGED <<event, http_method, raw_body, locals, response>>

StoreEvent ==
  /\ pc = "store_event"
  /\ \E ok \in BOOLEAN : log' = Append(log, store_event_to_s3("event", ok))
  /\ pc' = "store_body"
  /\ UNCHANGED inv
  /\ UNCHANGED <<event, http_method, raw_body, locals, response>>

StoreBody ==
  /\ pc = "store_body"
  /\ \E ok \in BOOLEAN : log' = Append(log, store_event_to_s3("body", ok))
  /\ pc' = "branch"
  /\ UNCHANGED inv
  /\ UNCHANGED <<event, http_method, raw_body, locals, response>>

(* Verify with the token comparison alone: the mode is read and ignored. *)
Verify_TokenOnly(ev) ==
  LET q == Get(ev, "queryStringParameters", NoneObj)
      params == IF q = NoneObj \/ q = EmptyDict THEN EmptyDict ELSE q
      token == Get(params, "hub.verify_token", None)
      challenge == Get(params, "hub.challenge", None)
  IN IF token = VERIFY_TOKEN
       THEN [statusCode |-> 200, body |-> [raw |-> challenge]]
       ELSE [statusCode |-> 403,
             body |-> json_dumps([error |-> <<"Invalid verification token">>])]

(* Verify with one error message per failed comparison. *)
Verify_TellsWhy(ev) ==
  LET q == Get(ev, "queryStringParameters", NoneObj)
      params == IF q = NoneObj \/ q = EmptyDict THEN EmptyDict ELSE q
      mode == Get(params, "hub.mode", None)
      token == Get(params, "hub.verify_token", None)
      challenge == Get(params, "hub.challenge", None)
  IN IF mode # "subscribe"
       THEN [statusCode |-> 403, body |-> json_dumps([error |-> <<"Invalid mode">>])]
     ELSE IF token # VERIFY_TOKEN
       THEN [statusCode |-> 403,
             body |-> json_dumps([error |-> <<"Invalid verification token">>])]
     ELSE [statusCode |-> 200, body |-> [raw |-> challenge]]

(* The GET branch: webhook verification. *)
Verify(ev) ==
  LET q == Get(ev, "queryStringParameters", NoneObj)
      params == IF q = NoneObj \/ q = EmptyDict THEN EmptyDict ELSE q
      mode == Get(params, "hub.mode", None)
      token == Get(params, "hub.verify_token", None)
      challenge == Get(params, "hub.challenge", None)
  IN IF mode = "subscribe" /\ token = VERIFY_TOKEN
       THEN [statusCode |-> 200, body |-> [raw |-> challenge]]
       ELSE [statusCode |-> 403,
             body |-> json_dumps([error |-> <<"Invalid verification token">>])]

(* HandleGet also texting the challenge to the number it came with. *)
HandleGet_Notifies ==
  /\ pc = "branch"
  /\ http_method = "GET"
  /\ response' = Verify(event)
  /\ log' = Append(log, [op |-> "send_whatsapp_message", to |-> from_number,
                         body |-> <<"verified">>, outcome |-> "delivered"])
  /\ pc' = "done"
  /\ UNCHANGED inv
  /\ UNCHANGED <<event, http_method, raw_body, locals>>

HandleGet ==
  /\ pc = "branch"
  /\ http_method = "GET"
  /\ response' = Verify(event)
  /\ pc' = "done"
  /\ UNCHANGED inv
  /\ UNCHANGED <<event, http_method, raw_body, locals, log>>

(* MethodNotAllowed with a fixed message that leaves the method out. *)
MethodNotAllowed_NoName(m) ==
  [statusCode |-> 405, body |-> json_dumps([error |-> <<"Method not allowed">>])]

(* MethodNotAllowed answering 501 Not Implemented. *)
MethodNotAllowed_501(m) ==
  [statusCode |-> 501,
   body |-> json_dumps([error |-> <<"Method ", m, " not allowed">>])]

(* The else branch: any other method. *)
MethodNotAllowed(m) ==
  [statusCode |-> 405,
   body |-> json_dumps([error |-> <<"Method ", m, " not allowed">>])]

HandleOther ==
  /\ pc = "branch"
  /\ http_method \notin {"GET", "POST"}
  /\ response' = MethodNotAllowed(http_method)
  /\ pc' = "done"
  /\ UNCHANGED inv
  /\ UNCHANGED <<event, http_method, raw_body, locals, log>>

(***************************************************************************)
(* The POST branch.                                                        *)
(***************************************************************************)

(* parsed_body.get('entry', [])[0].get('changes', [])[0]                   *)
(*            .get('value', {}).get('messages', [])                        *)
(* Indexing an empty list raises IndexError.                               *)
ExtractMessages(parsed_body) ==
  LET entry == Get(parsed_body, "entry", <<>>) IN
  IF Len(entry) = 0 THEN Raise("IndexError", <<"list index out of range">>)
  ELSE
    LET changes == Get(entry[1], "changes", <<>>) IN
    IF Len(changes) = 0 THEN Raise("IndexError", <<"list index out of range">>)
    ELSE Return(Get(Get(changes[1], "value", EmptyDict), "messages", <<>>))

(* PostExcept catching json.JSONDecodeError only: any other exception     *)
(* leaves lambda_handler.                                                  *)
PostExcept_JsonOnly(exc) ==
  IF exc.type = "JSONDecodeError"
    THEN [statusCode |-> 500, body |-> json_dumps([error |-> exc.msg])]
    ELSE [raised |-> exc]

(* except Exception as e: every exception class raised on the POST path    *)
(* derives from Exception.                                                 *)
PostExcept(exc) ==
  [statusCode |-> 500, body |-> json_dumps([error |-> exc.msg])]

NoMessageResponse ==
  [statusCode |-> 200,
   body |-> json_dumps([message |-> <<"No message object found in webhook">>])]

ProcessedResponse ==
  [statusCode |-> 200, body |-> json_dumps([message |-> <<"Message processed">>])]

(* SelectMessage taking the most recent element, messages[-1]. *)
SelectMessage_Last(messages) == messages[Len(messages)]

(* message = messages[0] *)
SelectMessage(messages) == messages[1]

(* message.get('from') and message.get('text', {}).get('body', '') *)
MessageFrom(message) == Get(message, "from", None)
MessageText(message) == Get(Get(message, "text", EmptyDict), "body", <<>>)

(* json.loads, the extraction chain, the `if not messages` return and the  *)
(* reading of messages[0], up to the call of invoke_agent.                 *)
HandlePost ==
  /\ pc = "branch"
  /\ http_method = "POST"
  /\ LET parsed == json_loads(raw_body)
         extracted == IF parsed.ok THEN ExtractMessages(parsed.val) ELSE parsed
     IN IF ~extracted.ok
          THEN /\ response' = PostExcept(extracted.exc)
               /\ pc' = "done"
               /\ UNCHANGED <<from_number, text_message>>
        ELSE IF Len(extracted.val) = 0
          THEN /\ response' = NoMessageResponse
               /\ pc' = "done"
               /\ UNCHANGED <<from_number, text_message>>
        ELSE LET message == SelectMessage(extracted.val) IN
               /\ from_number' = MessageFrom(message)
               /\ text_message' = MessageText(message)
               /\ pc' = "invoke_agent"
               /\ UNCHANGED response
  /\ UNCHANGED inv
  /\ UNCHANGED <<event, http_method, raw_body, agent, assistant_response, log>>

(***************************************************************************)
(* invoke_agent.                                                           *)
(***************************************************************************)

(* botocore.exceptions: EventStreamError derives from ClientError; the     *)
(* transport errors (ReadTimeoutError, EndpointConnectionError) derive     *)
(* from BotoCoreError, UnicodeDecodeError from ValueError.                 *)
ClientErrorClasses == {"ClientError", "EventStreamError"}

ServiceErrors ==
  { [type |-> "ClientError",
     msg |-> <<"An error occurred (ThrottlingException) when calling the InvokeAgent operation">>] }
TransportErrors ==
  { [type |-> "ReadTimeoutError", msg |-> <<"Read timeout on endpoint URL">>],
    [type |-> "EndpointConnectionError", msg |-> <<"Could not connect to the endpoint URL">>] }
StreamErrors ==
  { [type |-> "EventStreamError",
     msg |-> <<"An error occurred (internalServerException) when calling the InvokeAgent operation">>],
    [type |-> "ReadTimeoutError", msg |-> <<"Read timeout on endpoint URL">>] }

(* except ClientError as error: return f"Error invoking agent: {error}";   *)
(* any other exception propagates to the caller.                           *)
InvokeAgentExcept(exc) ==
  IF exc.type \in ClientErrorClasses
    THEN Return(<<"Error invoking agent: ">> \o exc.msg)
    ELSE [ok |-> FALSE, val |-> EmptyDict, exc |-> exc]

NoAgentResponse == <<"No response from the agent.">>

(* bytes.decode('utf-8'), strict: one character per ASCII byte, one per    *)
(* two-byte sequence (lead 0xC2..0xDF, continuation 0x80..0xBF); anything  *)
(* else raises UnicodeDecodeError.                                         *)
Chr(cp) ==
  CASE cp = 72 -> "H" [] cp = 105 -> "i" [] cp = 233 -> "U+00E9" [] OTHER -> "U+FFFF"

RECURSIVE decode(_)
decode(bs) ==
  IF Len(bs) = 0 THEN Return(<<>>)
  ELSE IF bs[1] < 128
    THEN LET rest == decode(Tail(bs)) IN
         IF rest.ok THEN Return(<<Chr(bs[1])>> \o rest.val) ELSE rest
  ELSE IF bs[1] \in 194..223 /\ Len(bs) >= 2 /\ bs[2] \in 128..191
    THEN LET rest == decode(SubSeq(bs, 3, Len(bs))) IN
         IF rest.ok
           THEN Return(<<Chr((bs[1] - 192) * 64 + (bs[2] - 128))>> \o rest.val)
           ELSE rest
  ELSE Raise("UnicodeDecodeError", <<"'utf-8' codec can't decode byte">>)

(* The events a completion stream can deliver. *)
ChunkBytes == { <<72, 105>>, <<195, 169>>, <<195>> }
StreamEvents ==
  { [chunk |-> [bytes |-> bs]] : bs \in ChunkBytes }
    \cup { [chunk |-> [attribution |-> EmptyDict]],
           [trace |-> EmptyDict],
           [returnControl |-> EmptyDict] }

IsChunk(e) == "chunk" \in DOMAIN e /\ "bytes" \in DOMAIN e.chunk

(* Aggregate putting the decoded chunk in front of the accumulated text. *)
Aggregate_Prepend(acc, e) ==
  IF "chunk" \in DOMAIN e /\ "bytes" \in DOMAIN e.chunk
    THEN LET d == decode(e.chunk.bytes) IN
         IF d.ok THEN Return(d.val \o acc) ELSE d
  ELSE Return(acc)

(* One iteration of `for event in completion`: the new full_response, or   *)
(* the exception the decode raised.                                        *)
Aggregate(acc, e) ==
  IF IsChunk(e)
    THEN LET d == decode(e.chunk.bytes) IN
         IF d.ok THEN Return(acc \o d.val) ELSE d
  ELSE IF "trace" \in DOMAIN e
    THEN Return(acc)
  ELSE Return(acc)

(* invoke_agent left with an exception: lambda_handler's handler turns it  *)
(* into the response; otherwise its return value is assistant_response.    *)
InvokeAgentLeaves(r) ==
  IF r.ok
    THEN /\ assistant_response' = r.val
         /\ pc' = "send"
         /\ UNCHANGED response
    ELSE /\ response' = PostExcept(r.exc)
         /\ pc' = "done"
         /\ UNCHANGED assistant_response

(* invoke_args with one session identifier for every caller instead of the *)
(* value of current_conversation_id.                                       *)
invoke_args_FixedSession(query, current_conversation_id, session_state) ==
  LET args == [op |-> "invoke_agent", inputText |-> query,
               sessionId |-> "session"]
  IN IF session_state = NoneObj \/ session_state = EmptyDict
       THEN args
       ELSE [k \in DOMAIN args \cup {"sessionState"} |->
               IF k = "sessionState" THEN session_state ELSE args[k]]

(* invoke_args: agentId and agentAliasId are fixed configuration; the      *)
(* sessionState key is added only for a truthy session_state.              *)
invoke_args(query, current_conversation_id, session_state) ==
  LET args == [op |-> "invoke_agent", inputText |-> query,
               sessionId |-> current_conversation_id]
  IN IF session_state = NoneObj \/ session_state = EmptyDict
       THEN args
       ELSE [k \in DOMAIN args \cup {"sessionState"} |->
               IF k = "sessionState" THEN session_state ELSE args[k]]

(* lambda_handler's call: query, current_conversation_id, session_state=None *)
InvokeAgentCall(q, sid) == invoke_args(q, sid, NoneObj)

(* The call bedrock_agent_runtime_client.invoke_agent raises. *)
InvokeAgentFails ==
  /\ pc = "invoke_agent"
  /\ log' = Append(log, InvokeAgentCall(text_message, from_number))
  /\ \E exc \in ServiceErrors \cup TransportErrors :
       /\ agent_error' = exc
       /\ InvokeAgentLeaves(InvokeAgentExcept(exc))
  /\ UNCHANGED inv
  /\ UNCHANGED <<event, http_method, raw_body, from_number, text_message,
                 completion, events, full_response>>

(* The call returns a response without a completion. *)
InvokeAgentNoCompletion ==
  /\ pc = "invoke_agent"
  /\ log' = Append(log, InvokeAgentCall(text_message, from_number))
  /\ completion' = None
  /\ InvokeAgentLeaves(Return(NoAgentResponse))
  /\ UNCHANGED inv
  /\ UNCHANGED <<event, http_method, raw_body, from_number, text_message,
                 events, agent_error, full_response>>

(* The call returns a response whose completion is an event stream (an     *)
(* EventStream object is truthy whatever it goes on to deliver).           *)
InvokeAgentStreams ==
  /\ pc = "invoke_agent"
  /\ log' = Append(log, InvokeAgentCall(text_message, from_number))
  /\ completion' = "EventStream"
  /\ full_response' = <<>>
  /\ pc' = "stream"
  /\ UNCHANGED inv
  /\ UNCHANGED <<event, http_method, raw_body, from_number, text_message,
                 events, agent_error, assistant_response, response>>

(* The stream delivers one more event. *)
StreamEvent ==
  /\ pc = "stream"
  /\ Len(events) < MaxEvents
  /\ \E e \in StreamEvents :
       /\ events' = Append(events, e)
       /\ LET r == Aggregate(full_response, e) IN
          IF r.ok
            THEN /\ full_response' = r.val
                 /\ UNCHANGED <<pc, agent_error, assistant_response, response>>
            ELSE /\ agent_error' = r.exc
                 /\ InvokeAgentLeaves(InvokeAgentExcept(r.exc))
                 /\ UNCHANGED full_response
  /\ UNCHANGED inv
  /\ UNCHANGED <<event, http_method, raw_body, from_number, text_message,
                 completion, log>>

(* Iterating the stream raises. *)
StreamFails ==
  /\ pc = "stream"
  /\ \E exc \in StreamErrors :
       /\ agent_error' = exc
       /\ InvokeAgentLeaves(InvokeAgentExcept(exc))
  /\ UNCHANGED inv
  /\ UNCHANGED <<event, http_method, raw_body, from_number, text_message,
                 completion, events, full_response, log>>

(* The stream is exhausted: return full_response. *)
StreamEnds ==
  /\ pc = "stream"
  /\ InvokeAgentLeaves(Return(full_response))
  /\ UNCHANGED inv
  /\ UNCHANGED <<event, http_method, raw_body, from_number, text_message,
                 agent, log>>

(***************************************************************************)
(* send_whatsapp_message and the final return.                             *)
(***************************************************************************)
SendOutcomes == {"delivered", "rejected", "raised"}

(* http.request returns a response (2xx or not) or raises. *)
http_request(outcome) ==
  CASE outcome = "delivered" -> Return([status |-> "200"])
    [] outcome = "rejected" -> Return([status |-> "401"])
    [] OTHER -> Raise("MaxRetryError", <<"Max retries exceeded with url">>)

(* send_whatsapp_message without its try/except: the failure propagates. *)
send_whatsapp_message_Uncaught(outcome) == http_request(outcome)

(* try: http.request(...); logger.info(...)                                *)
(* except Exception as e: logger.error(...)                                *)
(* Either way the function falls off its end and returns None.             *)
send_whatsapp_message(outcome) ==
  LET r == http_request(outcome) IN
  IF r.ok THEN Return(NoneObj) ELSE Return(NoneObj)

SendCall(to, body, outcome) ==
  [op |-> "send_whatsapp_message", to |-> to, body |-> body, outcome |-> outcome]

SendMessage ==
  /\ pc = "send"
  /\ \E outcome \in SendOutcomes :
       /\ log' = Append(log, SendCall(from_number, assistant_response, outcome))
       /\ LET r == send_whatsapp_message(outcome) IN
          IF r.ok
            THEN pc' = "return" /\ UNCHANGED response
            ELSE pc' = "done" /\ response' = PostExcept(r.exc)
  /\ UNCHANGED inv
  /\ UNCHANGED <<event, http_method, raw_body, locals>>

ReturnProcessed ==
  /\ pc = "return"
  /\ response' = ProcessedResponse
  /\ pc' = "done"
  /\ UNCHANGED inv
  /\ UNCHANGED <<event, http_method, raw_body, locals, log>>

Next ==
  \/ Invoke
  \/ StoreEvent
  \/ StoreBody
  \/ HandleGet
  \/ HandleOther
  \/ HandlePost
  \/ InvokeAgentFails
  \/ InvokeAgentNoCompletion
  \/ InvokeAgentStreams
  \/ StreamEvent
  \/ StreamFails
  \/ StreamEnds
  \/ SendMessage
  \/ ReturnProcessed

Spec == Init /\ [][Next]_vars

(* Once entered, lambda_handler runs on: it is sequential code, and every  *)
(* collaborator call it makes returns or raises.                           *)
Run ==
  \/ StoreEvent
  \/ StoreBody
  \/ HandleGet
  \/ HandleOther
  \/ HandlePost
  \/ InvokeAgentFails
  \/ InvokeAgentNoCompletion
  \/ InvokeAgentStreams
  \/ StreamEvent
  \/ StreamFails
  \/ StreamEnds
  \/ SendMessage
  \/ ReturnProcessed

SpecRun == Init /\ [][Next]_vars /\ WF_vars(Run)

(***************************************************************************)
(* The earlier handler, src/lambda_function_02_response.py: the same       *)
(* verification and method rejection, both audit writes under one try,     *)
(* and a fixed acknowledgement instead of the agent's reply.               *)
(***************************************************************************)
Acknowledgement == <<"I received your message">>

(* lambda_handler is entered: body and request_body are read. *)
Invoke02 ==
  /\ pc \in {"idle", "done"}
  /\ \E ev \in Events :
       /\ event' = ev
       /\ raw_body' = Get(ev, "body", json_dumps(EmptyDict))
  /\ http_method' = None
  /\ from_number' = None
  /\ text_message' = <<>>
  /\ completion' = "unset"
  /\ events' = <<>>
  /\ agent_error' = NoError
  /\ full_response' = <<>>
  /\ assistant_response' = <<>>
  /\ log' = <<>>
  /\ response' = NoResponse
  /\ pc' = "store_event"
  /\ UNCHANGED inv

(* The first put_object of the try block: when it raises, the except       *)
(* clause is entered and the second put_object is skipped.  http_method    *)
(* is read once the block is left.                                         *)
StoreEvent02 ==
  /\ pc = "store_event"
  /\ \E ok \in BOOLEAN :
       /\ log' = Append(log, store_event_to_s3("event", ok))
       /\ IF ok
            THEN pc' = "store_body" /\ UNCHANGED http_method
            ELSE pc' = "branch" /\ http_method' = Get(event, "httpMethod", "")
  /\ UNCHANGED inv
  /\ UNCHANGED <<event, raw_body, locals, response>>

(* The second put_object of the try block. *)
StoreBody02 ==
  /\ pc = "store_body"
  /\ \E ok \in BOOLEAN : log' = Append(log, store_event_to_s3("body", ok))
  /\ http_method' = Get(event, "httpMethod", "")
  /\ pc' = "branch"
  /\ UNCHANGED inv
  /\ UNCHANGED <<event, raw_body, locals, response>>

(* The POST branch: a message, when there is one, is acknowledged; the     *)
(* response is 'Message processed' with or without a message.              *)
HandlePost02 ==
  /\ pc = "branch"
  /\ http_method = "POST"
  /\ LET parsed == json_loads(raw_body)
         extracted == IF parsed.ok THEN ExtractMessages(parsed.val) ELSE parsed
     IN IF ~extracted.ok
          THEN /\ response' = PostExcept(extracted.exc)
               /\ pc' = "done"
               /\ UNCHANGED <<from_number, assistant_response>>
        ELSE IF Len(extracted.val) = 0
          THEN /\ response' = ProcessedResponse
               /\ pc' = "done"
               /\ UNCHANGED <<from_number, assistant_response>>
        ELSE /\ from_number' = MessageFrom(SelectMessage(extracted.val))
             /\ assistant_response' = Acknowledgement
             /\ pc' = "send"
             /\ UNCHANGED response
  /\ UNCHANGED inv
  /\ UNCHANGED <<event, http_method, raw_body, text_message, agent, log>>

(* The handler of src/lambda_function_02_response.py; its GET branch, its  *)
(* else branch, send_whatsapp_message and the final return read as in      *)
(* src/lambda_function_03_bedrock.py.                                      *)
Next02 ==
  \/ Invoke02
  \/ StoreEvent02
  \/ StoreBody02
  \/ HandleGet
  \/ HandleOther
  \/ HandlePost02
  \/ SendMessage
  \/ ReturnProcessed

Spec02 == Init /\ [][Next02]_vars
(***************************************************************************)
(* Several calls of lambda_handler side by side: the same steps as above,  *)
(* interleaved, each on its own frame inv[p].  The module-level names      *)
(* (http, s3_client, bedrock_agent_runtime_client, the configuration) are  *)
(* assigned once at import and hold nothing of an invocation.              *)
(***************************************************************************)

(* Longest event stream delivered to one of the interleaved calls. *)
MaxConcEvents == 1

Delivery(m) ==
  [httpMethod |-> "POST", queryStringParameters |-> NoneObj,
   body |-> json_dumps([entry |-> <<[changes |-> <<[value |-> [messages |-> <<m>>]]>>]>>])]

ConcEvents ==
  { Delivery([from |-> "15551234567", text |-> [body |-> <<"hi">>]]),
    Delivery([from |-> "15551234567", text |-> EmptyDict]),
    Delivery([from |-> "15557654321", text |-> [body |-> <<"hi">>]]),
    [httpMethod |-> "GET", body |-> NoneObj,
     queryStringParameters |->
       [k \in {"hub.mode", "hub.verify_token", "hub.challenge"} |->
          CASE k = "hub.mode" -> "subscribe" [] k = "hub.verify_token" -> "SECRET"
            [] OTHER -> "XYZ123"]] }

(* Events the completion delivers to the interleaved calls: text chunks. *)
ConcStreamEvents == { e \in StreamEvents : IsChunk(e) /\ e.chunk.bytes = <<72, 105>> }

(* assistant_response = invoke_agent(...) kept in one variable of the      *)
(* module instead of a local: every frame reads the last value assigned.   *)
SetReply_ModuleLevel(frames, p, text) ==
  [q \in DOMAIN frames |-> [frames[q] EXCEPT !.assistant_response = text]]

(* assistant_response = invoke_agent(...): a local of the call p *)
SetReply(frames, p, text) == [frames EXCEPT ![p].assistant_response = text]

(* invoke_agent is left in frame p, with a return value or an exception;   *)
(* its local full_response ends with the call.                             *)
ConcAgentLeaves(p, r, exc) ==
  IF r.ok
    THEN inv' = [SetReply(inv, p, r.val) EXCEPT ![p].pc = "send",
                                               ![p].agent_error = exc,
                                               ![p].agent_result = r.val,
                                               ![p].full_response = <<>>,
                                               ![p].delivered = 0]
    ELSE inv' = [inv EXCEPT ![p].pc = "done",
                            ![p].agent_error = exc,
                            ![p].full_response = <<>>,
                            ![p].delivered = 0,
                            ![p].response = PostExcept(r.exc)]

ConcInvoke(p) ==
  /\ UNCHANGED handler
  /\ inv[p].pc \in {"idle", "done"}
  /\ \E ev \in ConcEvents :
       inv' = [inv EXCEPT ![p] = [IdleFrame EXCEPT !.pc = "store_event", !.event = ev]]

(* the two store_event_to_s3 calls: whatever put_object does, the frame    *)
(* is left as it was                                                       *)
ConcStore(p) ==
  /\ UNCHANGED handler
  /\ inv[p].pc \in {"store_event", "store_body"}
  /\ \E ok \in BOOLEAN :
       inv' = [inv EXCEPT ![p].pc = IF inv[p].pc = "store_event" THEN "store_body"
                                                                ELSE "branch"]

(* the branch on http_method, up to the return or the call of invoke_agent *)
ConcBranch(p) ==
  /\ UNCHANGED handler
  /\ inv[p].pc = "branch"
  /\ LET ev == inv[p].event
         http_method_p == Get(ev, "httpMethod", "")
         parsed == json_loads(Get(ev, "body", json_dumps(EmptyDict)))
         extracted == IF parsed.ok THEN ExtractMessages(parsed.val) ELSE parsed
     IN IF http_method_p = "GET"
          THEN inv' = [inv EXCEPT ![p].pc = "done", ![p].response = Verify(ev)]
        ELSE IF http_method_p # "POST"
          THEN inv' = [inv EXCEPT ![p].pc = "done",
                                  ![p].response = MethodNotAllowed(http_method_p)]
        ELSE IF ~extracted.ok
          THEN inv' = [inv EXCEPT ![p].pc = "done",
                                  ![p].response = PostExcept(extracted.exc)]
        ELSE IF Len(extracted.val) = 0
          THEN inv' = [inv EXCEPT ![p].pc = "done", ![p].response = NoMessageResponse]
        ELSE LET message == SelectMessage(extracted.val) IN
             inv' = [inv EXCEPT ![p].pc = "invoke_agent",
                                ![p].from_number = MessageFrom(message),
                                ![p].text_message = MessageText(message)]

(* the backend call of invoke_agent: it raises, or returns a response      *)
(* without completion, or returns an event stream                          *)
ConcInvokeAgent(p) ==
  /\ UNCHANGED handler
  /\ inv[p].pc = "invoke_agent"
  /\ LET called == [inv EXCEPT ![p].calls =
                      Append(@, InvokeAgentCall(inv[p].text_message, inv[p].from_number))]
     IN \/ \E exc \in ServiceErrors \cup TransportErrors :
             LET r == InvokeAgentExcept(exc) IN
             IF r.ok
               THEN inv' = [SetReply(called, p, r.val) EXCEPT ![p].pc = "send",
                                                            ![p].agent_error = exc,
                                                            ![p].agent_result = r.val]
               ELSE inv' = [called EXCEPT ![p].pc = "done",
                                          ![p].agent_error = exc,
                                          ![p].response = PostExcept(r.exc)]
        \/ inv' = [SetReply(called, p, NoAgentResponse) EXCEPT
                     ![p].pc = "send", ![p].agent_result = NoAgentResponse]
        \/ inv' = [called EXCEPT ![p].pc = "stream", ![p].full_response = <<>>]

(* the loop over the completion: one more event, an exception of the       *)
(* stream, or its end                                                      *)
ConcStream(p) ==
  /\ UNCHANGED handler
  /\ inv[p].pc = "stream"
  /\ \/ /\ inv[p].delivered < MaxConcEvents
        /\ \E e \in ConcStreamEvents :
             LET r == Aggregate(inv[p].full_response, e) IN
             IF r.ok
               THEN inv' = [inv EXCEPT ![p].full_response = r.val,
                                       ![p].delivered = @ + 1]
               ELSE ConcAgentLeaves(p, InvokeAgentExcept(r.exc), r.exc)
     \/ \E exc \in StreamErrors : ConcAgentLeaves(p, InvokeAgentExcept(exc), exc)
     \/ ConcAgentLeaves(p, Return(inv[p].full_response), NoError)

(* send_whatsapp_message(from_number, assistant_response) *)
ConcSend(p) ==
  /\ UNCHANGED handler
  /\ inv[p].pc = "send"
  /\ \E outcome \in SendOutcomes :
       LET r == send_whatsapp_message(outcome)
           sent == [inv EXCEPT ![p].calls =
                      Append(@, [op |-> "send_whatsapp_message",
                                 to |-> inv[p].from_number,
                                 body |-> inv[p].assistant_response])]
       IN IF r.ok
            THEN inv' = [sent EXCEPT ![p].pc = "return"]
            ELSE inv' = [sent EXCEPT ![p].pc = "done", ![p].response = PostExcept(r.exc)]

ConcReturn(p) ==
  /\ UNCHANGED handler
  /\ inv[p].pc = "return"
  /\ inv' = [inv EXCEPT ![p].pc = "done", ![p].response = ProcessedResponse]

NextConc ==
  \E p \in Invocations :
    \/ ConcInvoke(p)
    \/ ConcStore(p)
    \/ ConcBranch(p)
    \/ ConcInvokeAgent(p)
    \/ ConcStream(p)
    \/ ConcSend(p)
    \/ ConcReturn(p)

SpecConc == Init /\ [][NextConc]_vars

(***************************************************************************)
(* Properties.  The request is read back from `event` itself, not from     *)
(* the handler's locals.                                                   *)
(***************************************************************************)
Done == pc = "done"
Returned == Done /\ "statusCode" \in DOMAIN response

IsGet == "httpMethod" \in DOMAIN event /\ event.httpMethod = "GET"
IsPost == "httpMethod" \in DOMAIN event /\ event.httpMethod = "POST"

HasParams == /\ "queryStringParameters" \in DOMAIN event
             /\ event.queryStringParameters # NoneObj
Param(k) == IF HasParams /\ k \in DOMAIN event.queryStringParameters
              THEN event.queryStringParameters[k] ELSE None

AgentCalls == SelectSeq(log, LAMBDA c : c.op = "invoke_agent")
SendCalls == SelectSeq(log, LAMBDA c : c.op = "send_whatsapp_message")

(* ----------------------------------------------------------------------- *)
(* C1: a GET request is answered 200 with the hub.challenge value as body  *)
(* exactly when hub.mode is "subscribe" and hub.verify_token is the        *)
(* configured VERIFY_TOKEN; every other GET request is answered 403.       *)
C1_VerificationIff ==
  (Done /\ IsGet) =>
    /\ Returned
    /\ IF Param("hub.mode") = "subscribe" /\ Param("hub.verify_token") = "SECRET"
         THEN /\ response.statusCode = 200
              /\ response.body = [raw |-> Param("hub.challenge")]
         ELSE response.statusCode = 403

C1_Witness ==
  /\ Done /\ IsGet
  /\ Param("hub.mode") = "subscribe" /\ Param("hub.verify_token") = "SECRET"
  /\ response = [statusCode |-> 200, body |-> [raw |-> "XYZ123"]]

(* ----------------------------------------------------------------------- *)
(* C2: a POST request whose body parses as JSON but has no message on the  *)
(* path entry[0].changes[0].value.messages (any segment missing or empty)  *)
(* is answered 200 with the 'no message object' body, and neither          *)
(* invoke_agent nor send_whatsapp_message is called.                       *)
BodyIsJson == /\ "body" \in DOMAIN event => event.body # NoneObj
              /\ "body" \in DOMAIN event => "json" \in DOMAIN event.body
Payload == IF "body" \in DOMAIN event THEN event.body.json ELSE EmptyDict

(* the payload's messages by a safe chain: a missing or empty segment      *)
(* gives the empty list                                                    *)
SafeMessages(p) ==
  IF "entry" \notin DOMAIN p \/ Len(p.entry) = 0 THEN <<>>
  ELSE IF "changes" \notin DOMAIN p.entry[1] \/ Len(p.entry[1].changes) = 0 THEN <<>>
  ELSE IF "value" \notin DOMAIN p.entry[1].changes[1] THEN <<>>
  ELSE IF "messages" \notin DOMAIN p.entry[1].changes[1].value THEN <<>>
  ELSE p.entry[1].changes[1].value.messages

MessageFound == IsPost /\ BodyIsJson /\ Len(SafeMessages(Payload)) > 0
NoMessage == IsPost /\ BodyIsJson /\ Len(SafeMessages(Payload)) = 0

C2_NoMessageIs200 ==
  (Done /\ NoMessage) =>
    /\ Returned
    /\ response.statusCode = 200
    /\ response.body = [json |-> [message |-> <<"No message object found in webhook">>]]
    /\ Len(AgentCalls) = 0
    /\ Len(SendCalls) = 0

(* ----------------------------------------------------------------------- *)
(* C3: when the agent backend call fails in any way (service error or      *)
(* transport error), invoke_agent returns a text containing the error      *)
(* description, send_whatsapp_message is still called with that text, and  *)
(* lambda_handler still returns 200.                                       *)
BackendFailed == agent_error \in ServiceErrors \cup TransportErrors \cup StreamErrors

Contains(text, piece) == \E i \in 0..Len(text) : \E j \in i..Len(text) : SubSeq(text, i + 1, j) = piece

C3_BackendFailureDegrades ==
  (Done /\ BackendFailed) =>
    /\ Returned
    /\ response.statusCode = 200
    /\ Len(SendCalls) = 1
    /\ SendCalls[1].body = assistant_response
    /\ Contains(assistant_response, agent_error.msg)

(* ----------------------------------------------------------------------- *)
(* C4: when the backend's reply holds no chunk event at all (completion    *)
(* absent, or a stream that is empty or holds only trace or unrecognized   *)
(* events), invoke_agent returns exactly "No response from the agent.".    *)
HasChunkBytes(e) == "chunk" \in DOMAIN e /\ "bytes" \in DOMAIN e.chunk
NoChunkEvents == \A i \in 1..Len(events) : ~HasChunkBytes(events[i])
AgentReturned == pc \in {"send", "return"} \/ (Done /\ Len(SendCalls) > 0)

C4_NoChunksGiveFallback ==
  (AgentReturned /\ agent_error = NoError /\ NoChunkEvents) =>
    assistant_response = <<"No response from the agent.">>
(* ----------------------------------------------------------------------- *)
(* C5: the text invoke_agent returns from a completion stream is the       *)
(* concatenation, in delivery order, of the decoded bytes of exactly the   *)
(* chunk events; trace events and unrecognized events add nothing, drop    *)
(* and reorder nothing, and never abort the aggregation (the only event    *)
(* that ends it early is a chunk whose bytes do not decode).               *)
RECURSIVE ChunkText(_)
ChunkText(es) ==
  IF Len(es) = 0 THEN <<>>
  ELSE IF HasChunkBytes(es[Len(es)])
    THEN ChunkText(SubSeq(es, 1, Len(es) - 1)) \o decode(es[Len(es)].chunk.bytes).val
    ELSE ChunkText(SubSeq(es, 1, Len(es) - 1))

Undecodable(e) == HasChunkBytes(e) /\ ~decode(e.chunk.bytes).ok

C5_AggregationIsChunkConcat ==
  /\ pc = "stream" => full_response = ChunkText(events)
  /\ (AgentReturned /\ completion = "EventStream" /\ agent_error = NoError) =>
       assistant_response = ChunkText(events)
  /\ (completion = "EventStream" /\ agent_error \notin {NoError} \cup StreamErrors) =>
       /\ Len(events) > 0
       /\ Undecodable(events[Len(events)])

C5_Witness ==
  /\ pc = "send"
  /\ agent_error = NoError
  /\ events = << [chunk |-> [bytes |-> <<72, 105>>]],
                 [trace |-> EmptyDict],
                 [chunk |-> [bytes |-> <<195, 169>>]] >>
  /\ assistant_response = <<"H", "i", "U+00E9">>

(* ----------------------------------------------------------------------- *)
(* C6: of a non-empty messages array only messages[0] is processed: the    *)
(* sender is messages[0].from, the query text is messages[0].text.body or  *)
(* the empty string when text or body is absent, and no later element      *)
(* causes an agent call or an outbound send.                               *)
First == SafeMessages(Payload)[1]
FirstFrom == IF "from" \in DOMAIN First THEN First.from ELSE None
FirstText == IF "text" \in DOMAIN First /\ "body" \in DOMAIN First.text
               THEN First.text.body ELSE <<>>

C6_OnlyFirstMessage ==
  MessageFound =>
    /\ pc \notin {"store_event", "store_body", "branch"} =>
         from_number = FirstFrom /\ text_message = FirstText
    /\ Len(AgentCalls) <= 1
    /\ Len(SendCalls) <= 1
    /\ \A i \in 1..Len(AgentCalls) :
         AgentCalls[i].sessionId = FirstFrom /\ AgentCalls[i].inputText = FirstText
    /\ \A i \in 1..Len(SendCalls) : SendCalls[i].to = FirstFrom

C6_Witness ==
  /\ Done /\ MessageFound
  /\ Len(SafeMessages(Payload)) = 2
  /\ First = [from |-> "15551234567", text |-> EmptyDict]
  /\ AgentCalls = <<[op |-> "invoke_agent", inputText |-> <<>>, sessionId |-> "15551234567"]>>
  /\ Len(SendCalls) = 1 /\ SendCalls[1].to = "15551234567"

(* ----------------------------------------------------------------------- *)
(* C7: for every POST request in which a message is found, invoke_agent is *)
(* called exactly once with (message text, sender), then                   *)
(* send_whatsapp_message exactly once with (sender, the text invoke_agent  *)
(* returned), and only then the response 200 'Message processed' is        *)
(* produced.                                                               *)
Calls == SelectSeq(log, LAMBDA c : c.op # "put_object")

C7_InvokeThenSendThen200 ==
  /\ (Done /\ MessageFound) =>
       /\ Len(Calls) = 2
       /\ Calls[1] = [op |-> "invoke_agent", inputText |-> FirstText, sessionId |-> FirstFrom]
       /\ Calls[2].op = "send_whatsapp_message"
       /\ Calls[2].to = FirstFrom
       /\ Calls[2].body = assistant_response
       /\ response = [statusCode |-> 200,
                      body |-> [json |-> [message |-> <<"Message processed">>]]]
  /\ (MessageFound /\ ~Done) => response = NoResponse

(* ----------------------------------------------------------------------- *)
(* C8: on the POST path a body that does not parse as JSON, and any        *)
(* exception raised at a later step, gives a 500 response whose body       *)
(* carries the error description; no exception escapes lambda_handler.     *)
ErrorResponse(m) == [statusCode |-> 500, body |-> [json |-> [error |-> m]]]

ParseFails == IsPost /\ ~BodyIsJson
ExtractionFails ==
  /\ IsPost /\ BodyIsJson
  /\ \/ "entry" \notin DOMAIN Payload
     \/ Len(Payload.entry) = 0
     \/ "changes" \notin DOMAIN Payload.entry[1]
     \/ Len(Payload.entry[1].changes) = 0
AgentRaises == agent_error # NoError /\ agent_error.type \notin {"ClientError", "EventStreamError"}

C8_PostErrorsAre500 ==
  (Done /\ IsPost) =>
    /\ Returned
    /\ ParseFails =>
         \E m \in { <<"the JSON object must be str, bytes or bytearray, not NoneType">>,
                    <<"Expecting value: line 1 column 1 (char 0)">> } :
           response = ErrorResponse(m)
    /\ ExtractionFails => response = ErrorResponse(<<"list index out of range">>)
    /\ AgentRaises => response = ErrorResponse(agent_error.msg)

C8_Witness ==
  /\ Done /\ IsPost
  /\ agent_error.type = "UnicodeDecodeError"
  /\ response = ErrorResponse(<<"'utf-8' codec can't decode byte">>)

(* ----------------------------------------------------------------------- *)
(* C9: a request whose method is neither GET nor POST, a request without   *)
(* an httpMethod field included, is answered 405 with a JSON error body    *)
(* that embeds the rejected method name.                                   *)
MethodName == IF "httpMethod" \in DOMAIN event THEN event.httpMethod ELSE ""

C9_OtherMethodIs405 ==
  (Done /\ ~IsGet /\ ~IsPost) =>
    /\ Returned
    /\ response.statusCode = 405
    /\ DOMAIN response.body = {"json"}
    /\ DOMAIN response.body.json = {"error"}
    /\ Contains(response.body.json.error, <<MethodName>>)

C9_Witness ==
  /\ Done
  /\ "httpMethod" \notin DOMAIN event
  /\ response.statusCode = 405

(* ----------------------------------------------------------------------- *)
(* C10: a failure of the outbound send is caught inside                    *)
(* send_whatsapp_message and never changes the response: once the agent    *)
(* reply was obtained, lambda_handler returns 200 'Message processed'      *)
(* whether the send succeeds or fails.                                     *)
C10_SendFailureStill200 ==
  /\ (Done /\ Len(SendCalls) > 0) =>
       response = [statusCode |-> 200,
                   body |-> [json |-> [message |-> <<"Message processed">>]]]
  /\ (Len(SendCalls) > 0 /\ ~Done) => pc = "return"

C10_Witness ==
  /\ Done
  /\ Len(SendCalls) = 1
  /\ SendCalls[1].outcome = "raised"
  /\ response.statusCode = 200
(* ----------------------------------------------------------------------- *)
(* C11: in every invocation, whatever the method and however malformed the *)
(* request, the audit write 'event' and then the audit write 'body' are    *)
(* both attempted before the method is branched on, hence before any       *)
(* verification, JSON parse, agent call, outbound send or response.        *)
IsAudit(c, prefix) == c.op = "put_object" /\ c.prefix = prefix

C11_AuditBeforeBranch ==
  /\ pc = "store_event" => (log = <<>> /\ response = NoResponse)
  /\ pc = "store_body" =>
       (Len(log) = 1 /\ IsAudit(log[1], "event") /\ response = NoResponse)
  /\ pc = "branch" =>
       /\ Len(log) = 2 /\ IsAudit(log[1], "event") /\ IsAudit(log[2], "body")
       /\ response = NoResponse
       /\ from_number = None /\ completion = "unset"
  /\ pc \notin {"idle", "store_event", "store_body", "branch"} =>
       /\ Len(log) >= 2 /\ IsAudit(log[1], "event") /\ IsAudit(log[2], "body")
       /\ \A i \in 3..Len(log) : log[i].op # "put_object"

C11_Witness ==
  /\ Done
  /\ IsPost /\ "body" \in DOMAIN event /\ event.body = [raw |-> "hello"]
  /\ log = << [op |-> "put_object", prefix |-> "event", ok |-> FALSE],
              [op |-> "put_object", prefix |-> "body", ok |-> TRUE] >>
  /\ response.statusCode = 500
(* ----------------------------------------------------------------------- *)
(* C12: a failure of either audit write never affects the response: the    *)
(* handler goes on from the audit in the same state whether each write     *)
(* succeeded or failed, so the response and the agent and outbound calls   *)
(* are the same, and a failure of the first write does not prevent the     *)
(* second from being attempted.                                            *)
C12_AuditFailureHarmless ==
  /\ pc \notin {"idle", "store_event", "store_body"} =>
       /\ Len(log) >= 2
       /\ IsAudit(log[1], "event")
       /\ IsAudit(log[2], "body")
  /\ pc = "branch" =>
       /\ http_method = (IF "httpMethod" \in DOMAIN event THEN event.httpMethod ELSE "")
       /\ raw_body = (IF "body" \in DOMAIN event THEN event.body ELSE [json |-> EmptyDict])
       /\ from_number = None /\ text_message = <<>>
       /\ completion = "unset" /\ events = <<>> /\ agent_error = NoError
       /\ full_response = <<>> /\ assistant_response = <<>>
       /\ response = NoResponse
(* ----------------------------------------------------------------------- *)
(* C13: rejection of a verification request is uniform: every rejected GET *)
(* request receives the same response, status 403 and the same body,       *)
(* whether the mode, the token or both were wrong or missing, and whatever *)
(* challenge was submitted.                                                *)
Rejected == IsGet /\ ~(Param("hub.mode") = "subscribe" /\ Param("hub.verify_token") = "SECRET")

C13_UniformRejection ==
  /\ (Done /\ Rejected) =>
       response = [statusCode |-> 403,
                   body |-> [json |-> [error |-> <<"Invalid verification token">>]]]
  /\ (Done /\ IsGet /\ Returned /\ response.statusCode # 200) =>
       response = [statusCode |-> 403,
                   body |-> [json |-> [error |-> <<"Invalid verification token">>]]]

C13_Witness ==
  /\ Done /\ Rejected
  /\ Param("hub.mode") = "Subscribe"
  /\ Param("hub.verify_token") = "SECRET"
  /\ Param("hub.challenge") = "XYZ123"
  /\ response.statusCode = 403
(* ----------------------------------------------------------------------- *)
(* C14: every invocation of lambda_handler, for any request and any        *)
(* outcome of the audit store, the agent backend (any finite event stream) *)
(* and the messaging transport, terminates with exactly one response,      *)
(* whose status code is one of 200, 403, 405 or 500.                       *)
C14_TerminatesWithOneResponse ==
  /\ [](Done => /\ DOMAIN response = {"statusCode", "body"}
                /\ response.statusCode \in {200, 403, 405, 500})
  /\ [](pc \notin {"idle", "done"} => response = NoResponse)
  /\ [][Done => (pc' = "store_event" /\ response' = NoResponse)]_vars
  /\ (pc = "store_event" ~> Done)

C14_Witness ==
  /\ Done
  /\ Len(events) = MaxEvents
  /\ Len(SendCalls) = 1
  /\ response.statusCode = 200
(* ----------------------------------------------------------------------- *)
(* C17: a GET request and a request with any method other than POST never  *)
(* call invoke_agent or send_whatsapp_message: the only collaborator they  *)
(* touch is the audit store, whether verification succeeds or is rejected. *)
C17_OnlyPostReachesAgent ==
  (pc # "idle" /\ ~IsPost) =>
    /\ Len(AgentCalls) = 0
    /\ Len(SendCalls) = 0
    /\ \A i \in 1..Len(log) : log[i].op = "put_object"
    /\ pc \in {"store_event", "store_body", "branch", "done"}

C17_Witness ==
  /\ Done /\ IsGet
  /\ response = [statusCode |-> 200, body |-> [raw |-> "XYZ123"]]
  /\ Len(log) = 2
  /\ log[1].op = "put_object" /\ log[2].op = "put_object"
(***************************************************************************)
(* Properties of interleaved invocations.  What a call was asked is read   *)
(* back from its own event, inv[p].event; what its collaborators did is    *)
(* read from its own agent_error and agent_result.                         *)
(***************************************************************************)
ConcMessage(p) ==
  inv[p].event.body.json.entry[1].changes[1].value.messages[1]
ConcSender(p) == ConcMessage(p).from
ConcAgentCalls(p) == SelectSeq(inv[p].calls, LAMBDA c : c.op = "invoke_agent")
ConcSendCalls(p) ==
  SelectSeq(inv[p].calls, LAMBDA c : c.op = "send_whatsapp_message")

(* C15: every agent call uses the sender identifier of the message it is   *)
(* made for as its session identifier; over any two invocations, agent     *)
(* calls carry the same session identifier exactly when their messages     *)
(* have the same sender; and no agent call carries a sessionState.         *)
C15_SessionIsSender ==
  \A p \in Invocations : \A i \in 1..Len(ConcAgentCalls(p)) :
    LET cp == ConcAgentCalls(p)[i] IN
    /\ cp.sessionId = ConcSender(p)
    /\ "sessionState" \notin DOMAIN cp
    /\ \A q \in Invocations : \A j \in 1..Len(ConcAgentCalls(q)) :
         (ConcSender(p) = ConcSender(q)) <=>
           (cp.sessionId = ConcAgentCalls(q)[j].sessionId)

(* Two invocations with different messages of one sender: both have called *)
(* the agent with that sender's identifier as session.                     *)
C15_Witness ==
  /\ inv[1].event # inv[2].event
  /\ Len(ConcAgentCalls(1)) = 1 /\ Len(ConcAgentCalls(2)) = 1
  /\ ConcSender(1) = "15551234567" /\ ConcSender(2) = "15551234567"
  /\ ConcAgentCalls(1)[1].sessionId = "15551234567"
  /\ ConcAgentCalls(2)[1].sessionId = "15551234567"

(* The response an invocation owes, from its own request and the outcome   *)
(* of its own agent call.                                                  *)
ConcExpected(p) ==
  IF inv[p].event.httpMethod = "GET"
    THEN [statusCode |-> 200,
          body |-> [raw |-> inv[p].event.queryStringParameters["hub.challenge"]]]
  ELSE IF inv[p].agent_error.type \notin ClientErrorClasses \cup {""}
    THEN ErrorResponse(inv[p].agent_error.msg)
  ELSE [statusCode |-> 200,
        body |-> [json |-> [message |-> <<"Message processed">>]]]

(* C16: under every interleaving, an invocation sends at most once, to the *)
(* sender of its own message, the text its own agent call returned, and    *)
(* its response is the one its own request and own agent outcome call for. *)
C16_InvocationsAreIsolated ==
  \A p \in Invocations :
    /\ Len(ConcSendCalls(p)) <= 1
    /\ \A i \in 1..Len(ConcSendCalls(p)) :
         /\ ConcSendCalls(p)[i].to = ConcSender(p)
         /\ ConcSendCalls(p)[i].body = inv[p].agent_result
    /\ inv[p].pc = "done" => inv[p].response = ConcExpected(p)
    /\ inv[p].pc # "done" => inv[p].response = NoResponse

(* Two invocations for one sender are in flight together, each holds a     *)
(* different reply, and each has sent its own.                             *)
C16_Witness ==
  /\ inv[1].pc = "return" /\ inv[2].pc = "return"
  /\ Len(ConcSendCalls(1)) = 1 /\ Len(ConcSendCalls(2)) = 1
  /\ ConcSender(1) = ConcSender(2)
  /\ inv[1].agent_result = <<"No response from the agent.">>
  /\ inv[2].agent_result # inv[1].agent_result
  /\ ConcSendCalls(1)[1].body = inv[1].agent_result
  /\ ConcSendCalls(2)[1].body = inv[2].agent_result
====
